---- MODULE Spec2Model ----
(***************************************************************************)
(* Token lifecycle and access control of the Neurohue back end: the        *)
(* identity service (src/auth) and the relying service (src/org).          *)
(*                                                                         *)
(* Time is counted in ticks; TicksPerSecond ticks make one second.  The    *)
(* claims of a token (iat, exp) are whole epoch seconds, as _ts() makes    *)
(* them; datetimes (the watermark, the expiry of a store key) keep the     *)
(* tick.                                                                   *)
(***************************************************************************)
EXTENDS Integers, Sequences, FiniteSets, TLC

\* ---- bounds of the model ----
TicksPerSecond == 2
MaxTick == 6
MaxTokens == 1
MaxPairs == 3
MaxLogins == 1
NumProcs == 2
\* lifetimes and leeway, in seconds, scaled down from the configured values
ACCESS_TOKEN_EXPIRE_MINUTES == 1
REFRESH_TOKEN_EXPIRE_DAYS == 2
JWT_LEEWAY_SECONDS == 1
AUTH_LOCKOUT_SECONDS == 2
\* the most calls one limiter window is followed for, and the most failures the
\* relying service's gateway is followed through
MaxCalls == 4
MaxFailures == 6
\* the threshold both login and the gateway use
max_attempts == 5


Users == {"u1"}
\* what create_token may be given as subject: a string or an integer
StrSubject(x) == [isInt |-> FALSE, n |-> 0, s |-> x]
IntSubject(k) == [isInt |-> TRUE, n |-> k, s |-> ""]
Subjects == {StrSubject("u1"), IntSubject(7)}
\* Python's str() on a subject
Str(subject) == IF subject.isInt THEN ToString(subject.n) ELSE subject.s

TokenSlots == MaxTokens + 2 * MaxPairs
Procs == 1 .. NumProcs
ClientIps == {"10.0.0.1"}
Emails == Users \cup {"nobody"}
TokenType == {"access", "refresh"}
UserRole == {"admin", "regional_manager", "cdc", "therapist", "staff"}
\* what a RateLimitChecker may be built with
MaxRequestsChoices == {1, 2}
WindowSecondsChoices == {1, 2}
None == -1
\* what a caller may present: an issued token (its index), the empty string,
\* or a string that is no JWT at all
EmptyToken == 0
Malformed == -2

VARIABLES
    now,                     \* wall clock, in ticks
    ENABLE_TOKEN_BLACKLIST,  \* SecurityConfig
    REDIS_FAIL_SECURE,       \* SecurityConfig
    redis_client,            \* "client" or "none" (the module-level handle)
    store,                   \* "up" or "down": whether a store call answers or raises
    tokens,                  \* the tokens issued so far, by jti
    issuedFor,               \* the subject and type each create_token call was given
    revoked_token,           \* store keys revoked_token:{jti}: tick at which the key expires, 0 if never set
    res,                     \* what the call that made the last step returned or raised
    revokedOk,               \* jtis for which revoke_token has returned True
    tokens_valid_from_utc,   \* User.tokens_valid_from_utc, a tick, or None
    status,                  \* User.status
    failed_auth,             \* store keys failed_auth:{ip}: the count and the tick the key expires
    pc,                      \* where each refresh_token call stands
    rtok,                    \* the token each refresh_token call was given
    rstart,                  \* what held when each refresh_token call began
    refreshed,               \* how many refresh_token calls returned a pair, by the token presented
    role,                    \* User.role
    streak,                  \* by client: the failed logins in a row, whether each was a
                             \* wrong credential met with the store reachable, the tick of the last
    checker,                 \* RateLimitChecker.max_requests and .window_seconds
    rate_limit,              \* store keys rate_limit:{identifier}:{window_seconds}: the count and
                             \* the tick the key expires (None: no time to live was set)
    memory_store,            \* RateLimitService.memory_store: the ticks of the calls admitted
    window,                  \* by identifier: the first call of the fixed window now running, the
                             \* calls made in it, whether every limiter call so far met no store fault,
                             \* the calls of the window that came through rate_limit_api
    lcall,                   \* where each concurrent login call stands and what it was given,
                             \* and by client the passwords verified since its failed-auth
                             \* key was made
    lout                     \* where the logout request stands, the tokens it was given, what
                             \* its first revoke_token call returned, and the tokens of the
                             \* requests that have returned normally

vars == <<now, ENABLE_TOKEN_BLACKLIST, REDIS_FAIL_SECURE, redis_client, store,
          tokens, issuedFor, revoked_token, res, revokedOk,
          tokens_valid_from_utc, status, failed_auth, pc, rtok, rstart, refreshed,
          role, streak, checker, rate_limit, memory_store, window, lout, lcall>>

\* ---- TokenManager helpers ----
_ts(dt) == dt \div TicksPerSecond

_default_expiry(token_type) ==
    IF token_type = "access" THEN ACCESS_TOKEN_EXPIRE_MINUTES
    ELSE IF token_type = "refresh" THEN REFRESH_TOKEN_EXPIRE_DAYS
    ELSE 3600

\* the claims create_token writes; the jti is the token's index in tokens
Claims(subject, token_type, t) ==
    [sub |-> Str(subject), type |-> token_type, iat |-> _ts(t), nbf |-> _ts(t),
     exp |-> _ts(t) + _default_expiry(token_type)]

Presentable == {EmptyToken, Malformed} \cup (1 .. TokenSlots)
Issued(tok) == tok \in 1 .. Len(tokens)

\* a store key set with ex=ttl is gone once ttl seconds have passed
KeyPresent(j) == revoked_token[j] > now

\* the leeway added to the current time instead of subtracted from it
JwtDecode_LeewayAdded(tok) ==
    IF ~Issued(tok) THEN "JWTError"
    ELSE IF tokens[tok].exp < _ts(now) + JWT_LEEWAY_SECONDS THEN "ExpiredSignatureError"
    ELSE IF tokens[tok].nbf > _ts(now) + JWT_LEEWAY_SECONDS THEN "JWTError"
    ELSE "ok"

\* jose's jwt.decode with signature, exp, nbf, iss, aud checked and a leeway
JwtDecode(tok) ==
    IF ~Issued(tok) THEN "JWTError"
    ELSE IF tokens[tok].exp < _ts(now) - JWT_LEEWAY_SECONDS THEN "ExpiredSignatureError"
    ELSE IF tokens[tok].nbf > _ts(now) + JWT_LEEWAY_SECONDS THEN "JWTError"
    ELSE "ok"

\* the except branch failing open whatever REDIS_FAIL_SECURE says
is_token_revoked_FailOpen(jti) ==
    IF ~ENABLE_TOKEN_BLACKLIST THEN "false"
    ELSE IF redis_client = "none"
         THEN IF REDIS_FAIL_SECURE THEN "InternalServerError" ELSE "false"
    ELSE IF store = "up"
         THEN IF KeyPresent(jti) THEN "true" ELSE "false"
    ELSE "false"

\* is_token_revoked: "true", "false", or the exception it raises
is_token_revoked(jti) ==
    IF ~ENABLE_TOKEN_BLACKLIST THEN "false"
    ELSE IF redis_client = "none"
         THEN IF REDIS_FAIL_SECURE THEN "InternalServerError" ELSE "false"
    ELSE IF store = "up"
         THEN IF KeyPresent(jti) THEN "true" ELSE "false"
    ELSE IF REDIS_FAIL_SECURE THEN "InternalServerError" ELSE "false"

\* what the body of verify_token's try block returns or raises
VerifyBody(tok, expected_type) ==
    LET d == JwtDecode(tok) IN
    IF d # "ok" THEN d
    ELSE IF tokens[tok].type # expected_type THEN "TokenTypeInvalid"
    ELSE IF ENABLE_TOKEN_BLACKLIST
         THEN LET r == is_token_revoked(tok) IN
              IF r = "InternalServerError" THEN r
              ELSE IF r = "true" THEN "TokenRevoked"
              ELSE "ok"
    ELSE "ok"

\* the except clauses of verify_token, in order
VerifyExcept(raised) ==
    CASE raised = "ok" -> "ok"
      [] raised = "ExpiredSignatureError" -> "TokenExpired"
      [] raised = "JWTError" -> "InvalidToken"
      [] OTHER -> "InvalidToken"

\* verify_token: "ok" (the payload is returned) or the error kind raised
verify_token(tok, expected_type) ==
    IF tok = EmptyToken THEN "InvalidToken"
    ELSE VerifyExcept(VerifyBody(tok, expected_type))

\* what held when a call began: how many refresh_token calls had already returned a
\* pair for the token, whether the token was issued before its user's watermark,
\* whether the client was locked out, whether the token's user was inactive
NoStart == [prior |-> 0, stale |-> FALSE, limited |-> FALSE, struck |-> FALSE, clean |-> FALSE,
            count |-> 0, inactive |-> FALSE]
\* no call made the last step
NoResult == [op |-> "", tok |-> None, expected |-> "", kind |-> "", sub |-> "", type |-> "",
             start |-> NoStart, input |-> "", alt |-> ""]

Result(op, tok, expected_type, kind) ==
    [op |-> op, tok |-> tok, expected |-> expected_type, kind |-> kind,
     sub |-> IF op = "verify_token" /\ kind = "ok" THEN tokens[tok].sub ELSE "",
     type |-> IF op = "verify_token" /\ kind = "ok" THEN tokens[tok].type ELSE "",
     start |-> NoStart, input |-> "", alt |-> ""]

\* an absent store key, no failed login yet, no limiter call yet
NoKey == [n |-> 0, exp |-> 0]
NoStreak == [n |-> 0, clean |-> TRUE, last |-> 0]
NoWindow == [start |-> None, calls |-> 0, clean |-> TRUE, api |-> 0]
\* no login call in flight
NoCall == [at |-> "idle", email |-> "", password_ok |-> FALSE, client_ip |-> ""]
\* no logout request in flight, none has returned
NoLogout == [at |-> "idle", access |-> None, refresh |-> None, first |-> "", out |-> {}]

\* the state after construction, for given users and a given RateLimitChecker
InitFrom(user_status, user_role, rate_limit_checker) ==
    /\ now = 0
    /\ ENABLE_TOKEN_BLACKLIST \in BOOLEAN
    /\ REDIS_FAIL_SECURE \in BOOLEAN
    /\ redis_client \in {"client", "none"}
    /\ store = "up"
    /\ tokens = <<>>
    /\ issuedFor = <<>>
    /\ revoked_token = [j \in 1 .. TokenSlots |-> 0]
    /\ res = NoResult
    /\ revokedOk = {}
    /\ tokens_valid_from_utc = [u \in Users |-> None]
    /\ status = user_status
    /\ failed_auth = [ip \in ClientIps |-> [n |-> 0, exp |-> 0]]
    /\ pc = [p \in Procs |-> "idle"]
    /\ rtok = [p \in Procs |-> None]
    /\ rstart = [p \in Procs |-> NoStart]
    /\ refreshed = [j \in 1 .. TokenSlots |-> 0]
    /\ role = user_role
    /\ streak = [ip \in ClientIps |-> NoStreak]
    /\ checker = rate_limit_checker
    /\ rate_limit = [id \in ClientIps |-> NoKey]
    /\ memory_store = [id \in ClientIps |-> <<>>]
    /\ window = [id \in ClientIps |-> NoWindow]
    /\ lout = NoLogout
    /\ lcall = [calls |-> [p \in Procs |-> NoCall], verified |-> [ip \in ClientIps |-> 0]]

Init ==
    InitFrom([u \in Users |-> "active"], [u \in Users |-> "admin"],
             [max_requests |-> 1, window_seconds |-> 1])

cfgVars == <<ENABLE_TOKEN_BLACKLIST, REDIS_FAIL_SECURE, redis_client>>
tokVars == <<tokens, issuedFor>>
userVars == <<tokens_valid_from_utc, status, role>>
procVars == <<pc, rtok, rstart, refreshed, lout, lcall>>
limVars == <<checker, rate_limit, memory_store, window>>
svcVars == <<userVars, failed_auth, streak, procVars, limVars>>

\* the token taken for expired only once its expiry lies in an earlier second
revoke_token_Strict(tok) ==
    IF ~ENABLE_TOKEN_BLACKLIST THEN "false"
    ELSE IF redis_client = "none" THEN "false"
    ELSE IF ~Issued(tok) THEN "false"
    ELSE IF tokens[tok].exp - _ts(now) < 0 THEN "true"
    ELSE IF store = "up" THEN "set"
    ELSE "false"

\* revoke_token: "false", "true" without a write (already expired), or "set"
\* (the key is written and True returned)
revoke_token(tok) ==
    IF ~ENABLE_TOKEN_BLACKLIST THEN "false"
    ELSE IF redis_client = "none" THEN "false"
    ELSE IF ~Issued(tok) THEN "false"
    ELSE IF tokens[tok].exp - _ts(now) <= 0 THEN "true"
    ELSE IF store = "up" THEN "set"
    ELSE "false"

\* the key kept for the token's whole lifetime, counted from the revocation
RevokeWrite_FullLifetime(tok) ==
    IF revoke_token(tok) = "set"
    THEN [revoked_token EXCEPT
            ![tok] = now + _default_expiry(tokens[tok].type) * TicksPerSecond]
    ELSE revoked_token

\* the store after revoke_token(tok): SET revoked_token:{jti} EX remaining_time
RevokeWrite(tok) ==
    IF revoke_token(tok) = "set"
    THEN [revoked_token EXCEPT
            ![tok] = now + (tokens[tok].exp - _ts(now)) * TicksPerSecond]
    ELSE revoked_token

\* ---- the clock and the store's availability ----
\* the clock advances; the store drops the keys whose time to live has run out
Tick ==
    /\ now < MaxTick
    /\ now' = now + 1
    /\ revoked_token' = [j \in 1 .. TokenSlots |->
                            IF revoked_token[j] > now + 1 THEN revoked_token[j] ELSE 0]
    /\ failed_auth' = [ip \in ClientIps |->
                          IF failed_auth[ip].exp = None \/ failed_auth[ip].exp > now + 1
                          THEN failed_auth[ip]
                          ELSE [n |-> 0, exp |-> 0]]
    /\ rate_limit' = [id \in ClientIps |->
                         IF rate_limit[id].exp = None \/ rate_limit[id].exp > now + 1
                         THEN rate_limit[id] ELSE NoKey]
    /\ res' = NoResult
    /\ streak' = [ip \in ClientIps |->
                     IF streak[ip].n > 0
                        /\ now + 1 < streak[ip].last + AUTH_LOCKOUT_SECONDS * TicksPerSecond
                     THEN streak[ip] ELSE NoStreak]
    /\ UNCHANGED <<cfgVars, store, tokVars, revokedOk, userVars, procVars,
                   checker, memory_store, window>>

StoreFail ==
    /\ store = "up"
    /\ store' = "down"
    /\ res' = NoResult
    /\ UNCHANGED <<now, cfgVars, tokVars, revoked_token, revokedOk, svcVars>>

StoreRecover ==
    /\ store = "down"
    /\ store' = "up"
    /\ res' = NoResult
    /\ UNCHANGED <<now, cfgVars, tokVars, revoked_token, revokedOk, svcVars>>

\* ---- TokenManager operations ----
CreateToken(subject, token_type) ==
    /\ Len(tokens) < MaxTokens
    /\ tokens' = Append(tokens, Claims(subject, token_type, now))
    /\ issuedFor' = Append(issuedFor, [subject |-> subject, token_type |-> token_type, by |-> "create_token"])
    /\ res' = [NoResult EXCEPT !.op = "create_token", !.tok = Len(tokens) + 1]
    /\ UNCHANGED <<now, cfgVars, store, revoked_token, revokedOk, svcVars>>

VerifyToken(tok, expected_type) ==
    /\ tok <= Len(tokens)
    /\ res' = Result("verify_token", tok, expected_type, verify_token(tok, expected_type))
    /\ UNCHANGED <<now, cfgVars, store, tokVars, revoked_token, revokedOk, svcVars>>

RevokeToken(tok) ==
    /\ tok <= Len(tokens)
    /\ revoked_token' = RevokeWrite(tok)
    /\ res' = [Result("revoke_token", tok, "",
                       IF revoke_token(tok) = "false" THEN "false" ELSE "true")
                 EXCEPT !.input = IF tok \in revokedOk THEN "repeat" ELSE "first"]
    /\ revokedOk' = IF revoke_token(tok) # "false" THEN revokedOk \cup {tok} ELSE revokedOk
    /\ UNCHANGED <<now, cfgVars, store, tokVars, svcVars>>

IsTokenRevoked(jti) ==
    /\ jti <= Len(tokens)
    /\ res' = Result("is_token_revoked", jti, "", is_token_revoked(jti))
    /\ UNCHANGED <<now, cfgVars, store, tokVars, revoked_token, revokedOk, svcVars>>

Next ==
    \/ Tick
    \/ StoreFail
    \/ StoreRecover
    \/ \E s \in Subjects, ty \in TokenType : CreateToken(s, ty)
    \/ \E tok \in Presentable, ty \in TokenType : VerifyToken(tok, ty)
    \/ \E tok \in Presentable : RevokeToken(tok)
    \/ \E jti \in 1 .. TokenSlots : IsTokenRevoked(jti)

Spec == Init /\ [][Next]_vars

\* ---- RateLimitService: the failed-authentication counter ----
FailedAuthPresent(ip) ==
    failed_auth[ip].n > 0 /\ (failed_auth[ip].exp = None \/ failed_auth[ip].exp > now)

\* what GET failed_auth:{ip} reads, 0 for no key
FailedCount(ip) == IF FailedAuthPresent(ip) THEN failed_auth[ip].n ELSE 0

\* the threshold compared with > where the code has >=
is_auth_rate_limited_Strict(ip, limit) ==
    /\ redis_client = "client"
    /\ store = "up"
    /\ FailedAuthPresent(ip)
    /\ failed_auth[ip].n > limit

\* is_auth_rate_limited: a store fault, or a missing client, answers False
is_auth_rate_limited(ip, limit) ==
    /\ redis_client = "client"
    /\ store = "up"
    /\ FailedAuthPresent(ip)
    /\ failed_auth[ip].n >= limit

\* the store after record_failed_auth_attempt: INCR, then EXPIRE
record_failed_auth_attempt(ip, lockout_duration) ==
    IF redis_client = "client" /\ store = "up"
    THEN [failed_auth EXCEPT
            ![ip] = [n |-> (IF FailedAuthPresent(ip) THEN failed_auth[ip].n ELSE 0) + 1,
                     exp |-> now + lockout_duration * TicksPerSecond]]
    ELSE failed_auth

\* the store after a record_failed_auth_attempt whose INCR is answered and whose
\* EXPIRE is not: a new key is left with no time to live, an old one keeps its own
RecordWithoutExpire(ip) ==
    [failed_auth EXCEPT
       ![ip] = [n |-> (IF FailedAuthPresent(ip) THEN failed_auth[ip].n ELSE 0) + 1,
                exp |-> IF FailedAuthPresent(ip) THEN failed_auth[ip].exp ELSE None]]

\* record_failed_auth_attempt called on its own; the store may go down between
\* the INCR and the EXPIRE, and the except branch then swallows the error
RecordFailedAuthAttempt(ip, expire_fails) ==
    /\ FailedCount(ip) < MaxFailures
    /\ expire_fails => (redis_client = "client" /\ store = "up")
    /\ failed_auth' = IF expire_fails THEN RecordWithoutExpire(ip)
                      ELSE record_failed_auth_attempt(ip, AUTH_LOCKOUT_SECONDS)
    /\ store' = IF expire_fails THEN "down" ELSE store
    /\ res' = [NoResult EXCEPT !.op = "record_failed_auth_attempt",
                               !.input = IF expire_fails \/ store = "down"
                                         THEN "fault" ELSE ""]
    /\ UNCHANGED <<now, cfgVars, tokVars, revoked_token, revokedOk, userVars, streak,
                   procVars, limVars>>

\* the store after clear_failed_auth_attempts: DEL
clear_failed_auth_attempts(ip) ==
    IF redis_client = "client" /\ store = "up"
    THEN [failed_auth EXCEPT ![ip] = [n |-> 0, exp |-> 0]]
    ELSE failed_auth

\* ---- AuthService ----
UserOf(tok) == tokens[tok].sub

\* tokens and issuedFor after create_token_pair(user)
PairTokens(u) ==
    tokens \o <<Claims(StrSubject(u), "access", now), Claims(StrSubject(u), "refresh", now)>>
PairIssuedFor(u, by) ==
    issuedFor \o <<[subject |-> StrSubject(u), token_type |-> "access", by |-> by],
                   [subject |-> StrSubject(u), token_type |-> "refresh", by |-> by]>>

\* the bounds on issuing: room for the pairs the calls in flight will issue and
\* one more, and the number of logins that have returned a pair
RoomForPair ==
    Len(tokens) + 2 * (Cardinality({p \in Procs : pc[p] # "idle"}) + 1) <= 2 * MaxPairs
Logins ==
    Cardinality({i \in 1 .. Len(issuedFor) :
                   issuedFor[i].by = "login" /\ issuedFor[i].token_type = "access"})

\* the status of the account never looked at
login_IgnoresStatus(email, password_ok, client_ip) ==
    IF is_auth_rate_limited(client_ip, max_attempts) THEN "InvalidCredentials"
    ELSE IF ~(email \in Users /\ password_ok) THEN "InvalidCredentials"
    ELSE "ok"

\* the outcome of login, before any token is made
login(email, password_ok, client_ip) ==
    IF is_auth_rate_limited(client_ip, max_attempts) THEN "InvalidCredentials"
    ELSE IF email \in Users /\ status[email] # "active" THEN "InvalidCredentials"
    ELSE IF ~(email \in Users /\ password_ok) THEN "InvalidCredentials"
    ELSE "ok"

\* whether login reaches record_failed_auth_attempt
LoginRecordsFailure(email, password_ok, client_ip) ==
    /\ ~is_auth_rate_limited(client_ip, max_attempts)
    /\ ~(email \in Users /\ status[email] # "active")
    /\ ~(email \in Users /\ password_ok)

\* the client has max_attempts failed logins in a row behind it, the last of them
\* less than the lockout time ago
StreakLive(ip) == streak[ip].n > 0 /\ now < streak[ip].last + AUTH_LOCKOUT_SECONDS * TicksPerSecond
Struck(ip) == StreakLive(ip) /\ streak[ip].n >= max_attempts

\* the failed logins in a row after this attempt: a success ends the row, an
\* attempt turned away by the lockout leaves it, any other failure extends it
StreakAfter(email, password_ok, client_ip, kind) ==
    IF kind = "ok" THEN NoStreak
    ELSE IF is_auth_rate_limited(client_ip, max_attempts) THEN streak[client_ip]
    ELSE [n |-> IF (IF StreakLive(client_ip) THEN streak[client_ip].n ELSE 0) + 1 < max_attempts
                THEN (IF StreakLive(client_ip) THEN streak[client_ip].n ELSE 0) + 1
                ELSE max_attempts,
          clean |-> /\ StreakLive(client_ip) => streak[client_ip].clean
                    /\ LoginRecordsFailure(email, password_ok, client_ip)
                    /\ redis_client = "client" /\ store = "up",
          last |-> now]

Login(email, password_ok, client_ip) ==
    /\ login(email, password_ok, client_ip) = "ok" => (RoomForPair /\ Logins < MaxLogins)
    /\ LET kind == login(email, password_ok, client_ip) IN
       /\ failed_auth' =
             IF kind = "ok" THEN clear_failed_auth_attempts(client_ip)
             ELSE IF LoginRecordsFailure(email, password_ok, client_ip)
                  THEN record_failed_auth_attempt(client_ip, AUTH_LOCKOUT_SECONDS)
                  ELSE failed_auth
       /\ tokens' = IF kind = "ok" THEN PairTokens(email) ELSE tokens
       /\ issuedFor' = IF kind = "ok" THEN PairIssuedFor(email, "login") ELSE issuedFor
       /\ streak' = [streak EXCEPT ![client_ip] = StreakAfter(email, password_ok, client_ip, kind)]
       /\ res' = [NoResult EXCEPT !.op = "login", !.kind = kind, !.sub = email,
                                  !.tok = IF kind = "ok" THEN Len(tokens) + 1 ELSE None,
                                  !.input = IF password_ok THEN "password_ok" ELSE "password_wrong",
                                  !.start = [NoStart EXCEPT !.struck = Struck(client_ip),
                                                       !.clean = streak[client_ip].clean]]
    /\ UNCHANGED <<now, cfgVars, store, revoked_token, revokedOk, userVars, procVars, limVars>>

\* ---- login, call by call ----
\* login up to its first suspension: the lockout check, and the error it raises
LoginCheck(p, email, password_ok, client_ip) ==
    /\ lcall.calls[p].at = "idle"
    /\ IF is_auth_rate_limited(client_ip, max_attempts)
       THEN /\ res' = [NoResult EXCEPT !.op = "login", !.kind = "InvalidCredentials",
                                       !.sub = email]
            /\ UNCHANGED lcall
       ELSE /\ lcall' = [lcall EXCEPT
                           !.calls[p] = [at |-> "checked", email |-> email,
                                         password_ok |-> password_ok,
                                         client_ip |-> client_ip]]
            /\ res' = NoResult
    /\ UNCHANGED <<now, cfgVars, store, tokVars, revoked_token, revokedOk, userVars,
                   failed_auth, streak, pc, rtok, rstart, refreshed, lout, limVars>>

\* verify_password is reached: the user exists and is active
PasswordVerified(email) == email \in Users /\ status[email] = "active"

\* login from the user's record on: the status, the password, and the failure
\* recorded or the counter cleared and the pair returned
LoginVerify(p) ==
    LET email == lcall.calls[p].email
        password_ok == lcall.calls[p].password_ok
        client_ip == lcall.calls[p].client_ip
        kind == IF email \in Users /\ status[email] # "active" THEN "InvalidCredentials"
                ELSE IF ~(email \in Users /\ password_ok) THEN "InvalidCredentials"
                ELSE "ok"
    IN
    /\ lcall.calls[p].at = "checked"
    /\ kind = "ok" => (RoomForPair /\ Logins < MaxLogins)
    /\ failed_auth' =
          IF kind = "ok" THEN clear_failed_auth_attempts(client_ip)
          ELSE IF email \in Users /\ status[email] # "active" THEN failed_auth
          ELSE record_failed_auth_attempt(client_ip, AUTH_LOCKOUT_SECONDS)
    /\ tokens' = IF kind = "ok" THEN PairTokens(email) ELSE tokens
    /\ issuedFor' = IF kind = "ok" THEN PairIssuedFor(email, "login") ELSE issuedFor
    /\ lcall' = [lcall EXCEPT
                   !.calls[p] = NoCall,
                   !.verified[client_ip] =
                       IF kind = "ok" THEN 0
                       ELSE (IF FailedAuthPresent(client_ip) THEN @ ELSE 0)
                            + (IF PasswordVerified(email) THEN 1 ELSE 0)]
    /\ res' = [NoResult EXCEPT !.op = "login", !.kind = kind, !.sub = email,
                               !.tok = IF kind = "ok" THEN Len(tokens) + 1 ELSE None,
                               !.input = IF password_ok THEN "password_ok"
                                         ELSE "password_wrong"]
    /\ UNCHANGED <<now, cfgVars, store, revoked_token, revokedOk, userVars, streak,
                   pc, rtok, rstart, refreshed, lout, limVars>>

\* the watermark cut down to whole seconds before the comparison
IssuedBeforeWatermark_Truncated(tok) ==
    /\ tokens_valid_from_utc[UserOf(tok)] # None
    /\ tokens[tok].iat < _ts(tokens_valid_from_utc[UserOf(tok)])

\* whether the watermark check of the gateway calls the token revoked
IssuedBeforeWatermark(tok) ==
    /\ tokens_valid_from_utc[UserOf(tok)] # None
    /\ tokens[tok].iat * TicksPerSecond < tokens_valid_from_utc[UserOf(tok)]

\* refresh_token, up to the first suspension after the user is loaded
RefreshVerify(p, tok) ==
    /\ pc[p] = "idle"
    /\ tok <= Len(tokens)
    /\ verify_token(tok, "refresh") = "ok" => RoomForPair
    /\ LET kind == verify_token(tok, "refresh")
           start == [prior |-> IF Issued(tok) THEN refreshed[tok] ELSE 0,
                     stale |-> Issued(tok) /\ IssuedBeforeWatermark(tok),
                     limited |-> FALSE, struck |-> FALSE, clean |-> FALSE, count |-> 0,
                     inactive |-> Issued(tok) /\ UserOf(tok) \in Users
                                  /\ status[UserOf(tok)] = "inactive"]
       IN
       IF kind = "ok"
       THEN /\ pc' = [pc EXCEPT ![p] = "verified"]
            /\ rtok' = [rtok EXCEPT ![p] = tok]
            /\ rstart' = [rstart EXCEPT ![p] = start]
            /\ res' = NoResult
       ELSE /\ res' = [Result("refresh_token", tok, "refresh", kind) EXCEPT !.start = start]
            /\ UNCHANGED <<pc, rtok, rstart>>
    /\ UNCHANGED <<now, cfgVars, store, tokVars, revoked_token, revokedOk, userVars,
                   failed_auth, streak, refreshed, limVars, lout, lcall>>

\* refresh_token: the old token is revoked, or the call ends with InternalServerError
RefreshRevoke(p) ==
    /\ pc[p] = "verified"
    /\ revoked_token' = RevokeWrite(rtok[p])
    /\ IF revoke_token(rtok[p]) = "false"
       THEN /\ res' = [Result("refresh_token", rtok[p], "refresh", "InternalServerError")
                         EXCEPT !.start = rstart[p]]
            /\ pc' = [pc EXCEPT ![p] = "idle"]
            /\ rtok' = [rtok EXCEPT ![p] = None]
            /\ rstart' = [rstart EXCEPT ![p] = NoStart]
            /\ UNCHANGED revokedOk
       ELSE /\ res' = NoResult
            /\ pc' = [pc EXCEPT ![p] = "revoked"]
            /\ revokedOk' = revokedOk \cup {rtok[p]}
            /\ UNCHANGED <<rtok, rstart>>
    /\ UNCHANGED <<now, cfgVars, store, tokVars, userVars, failed_auth, streak, refreshed,
                   limVars, lout, lcall>>

\* refresh_token: the new pair is issued and returned
RefreshIssue(p) ==
    /\ pc[p] = "revoked"
    /\ tokens' = PairTokens(UserOf(rtok[p]))
    /\ issuedFor' = PairIssuedFor(UserOf(rtok[p]), "refresh_token")
    /\ refreshed' = [refreshed EXCEPT ![rtok[p]] = @ + 1]
    /\ res' = [Result("refresh_token", rtok[p], "refresh", "ok") EXCEPT !.start = rstart[p]]
    /\ pc' = [pc EXCEPT ![p] = "idle"]
    /\ rtok' = [rtok EXCEPT ![p] = None]
    /\ rstart' = [rstart EXCEPT ![p] = NoStart]
    /\ UNCHANGED <<now, cfgVars, store, revoked_token, revokedOk, userVars, failed_auth,
                   streak, limVars, lout, lcall>>

\* change_password, and revoke_all_user_tokens at its end
ChangePassword(u, current_password_ok) ==
    /\ IF current_password_ok
       THEN /\ tokens_valid_from_utc' = [tokens_valid_from_utc EXCEPT ![u] = now]
            /\ res' = [NoResult EXCEPT !.op = "change_password", !.kind = "ok", !.sub = u]
       ELSE /\ res' = [NoResult EXCEPT !.op = "change_password",
                                       !.kind = "InvalidCredentials", !.sub = u]
            /\ UNCHANGED tokens_valid_from_utc
    /\ UNCHANGED <<now, cfgVars, store, tokVars, revoked_token, revokedOk, status, role,
                   failed_auth, streak, procVars, limVars>>

\* deactivate_user, called by an administrator other than the user
DeactivateUser(u) ==
    /\ IF status[u] = "inactive"
       THEN /\ res' = [NoResult EXCEPT !.op = "deactivate_user", !.kind = "ValidationError",
                                       !.sub = u]
            /\ UNCHANGED status
       ELSE /\ status' = [status EXCEPT ![u] = "inactive"]
            /\ res' = [NoResult EXCEPT !.op = "deactivate_user", !.kind = "ok", !.sub = u]
    /\ UNCHANGED <<now, cfgVars, store, tokVars, revoked_token, revokedOk,
                   tokens_valid_from_utc, role, failed_auth, streak, procVars, limVars>>

\* ---- the gateway of the identity service ----
\* _authenticate_user_from_token: "ok" or the error kind raised
authenticate(tok, client_ip) ==
    IF is_auth_rate_limited(client_ip, max_attempts) THEN "RateLimitExceeded"
    ELSE IF verify_token(tok, "access") # "ok" THEN verify_token(tok, "access")
    ELSE IF IssuedBeforeWatermark(tok) THEN "TokenRevoked"
    ELSE "ok"

\* whether the gateway reaches a record_failed_auth_attempt call
GatewayRecordsFailure(tok, client_ip) ==
    /\ ~is_auth_rate_limited(client_ip, max_attempts)
    /\ \/ verify_token(tok, "access") = "InvalidToken"
       \/ verify_token(tok, "access") = "ok" /\ IssuedBeforeWatermark(tok)

Authenticate(tok, client_ip) ==
    /\ tok <= Len(tokens)
    /\ LET kind == authenticate(tok, client_ip) IN
       /\ failed_auth' =
             IF kind = "ok" THEN clear_failed_auth_attempts(client_ip)
             ELSE IF GatewayRecordsFailure(tok, client_ip)
                  THEN record_failed_auth_attempt(client_ip, AUTH_LOCKOUT_SECONDS)
                  ELSE failed_auth
       /\ res' = [Result("authenticate", tok, "access", kind)
                    EXCEPT !.sub = IF kind = "ok" THEN UserOf(tok) ELSE "",
                           !.start = [NoStart EXCEPT
                                        !.limited = is_auth_rate_limited(client_ip, max_attempts),
                                        !.count = FailedCount(client_ip)]]
    /\ UNCHANGED <<now, cfgVars, store, tokVars, revoked_token, revokedOk, userVars, procVars,
                   streak, limVars>>

\* ---- AuthService.logout ----
\* logout: the first revoke_token call, whose result is dropped
LogoutAccess(access_token, refresh_token) ==
    /\ lout.at = "idle"
    /\ access_token <= Len(tokens)
    /\ refresh_token <= Len(tokens)
    /\ revoked_token' = RevokeWrite(access_token)
    /\ revokedOk' = IF revoke_token(access_token) # "false"
                    THEN revokedOk \cup {access_token} ELSE revokedOk
    /\ lout' = [lout EXCEPT !.at = "access_revoked", !.access = access_token,
                            !.refresh = refresh_token,
                            !.first = IF revoke_token(access_token) = "false"
                                      THEN "false" ELSE "true"]
    /\ res' = NoResult
    /\ UNCHANGED <<now, cfgVars, store, tokVars, userVars, failed_auth,
                   pc, rtok, rstart, refreshed, streak, limVars, lcall>>

\* logout: the second revoke_token call, whose result is dropped, and the return;
\* input and alt are what the two calls returned
LogoutRefresh ==
    /\ lout.at = "access_revoked"
    /\ revoked_token' = RevokeWrite(lout.refresh)
    /\ revokedOk' = IF revoke_token(lout.refresh) # "false"
                    THEN revokedOk \cup {lout.refresh} ELSE revokedOk
    /\ lout' = [NoLogout EXCEPT !.out = lout.out \cup {lout.access, lout.refresh}]
    /\ res' = [Result("logout", lout.access, "access", "ok")
                 EXCEPT !.input = lout.first,
                        !.alt = IF revoke_token(lout.refresh) = "false"
                                THEN "false" ELSE "true"]
    /\ UNCHANGED <<now, cfgVars, store, tokVars, userVars, failed_auth,
                   pc, rtok, rstart, refreshed, streak, limVars, lcall>>

\* ---- RateLimitService: the request limiter ----
use_redis == redis_client # "none"

WindowTicks == checker.window_seconds * TicksPerSecond
RateKeyPresent(id) ==
    rate_limit[id].n > 0 /\ (rate_limit[id].exp = None \/ rate_limit[id].exp > now)

\* what INCR rate_limit:{identifier}:{window_seconds} returns
Incr(id) == IF RateKeyPresent(id) THEN rate_limit[id].n + 1 ELSE 1

\* a store call of the limiter raises: INCR when the store is down, EXPIRE when
\* the store goes down after the INCR that made the key
RedisFault(id, expire_fails) == store = "down" \/ (expire_fails /\ Incr(id) = 1)

\* the except branch answering limited
_check_redis_rate_limit_FailClosed(id, expire_fails) ==
    IF RedisFault(id, expire_fails) THEN "true"
    ELSE IF Incr(id) > checker.max_requests THEN "true" ELSE "false"

\* _check_redis_rate_limit: "true" (limited) or "false"
_check_redis_rate_limit(id, expire_fails) ==
    IF RedisFault(id, expire_fails) THEN "false"
    ELSE IF Incr(id) > checker.max_requests THEN "true" ELSE "false"

\* the store after _check_redis_rate_limit
RedisAfter(id, expire_fails) ==
    IF store = "down" THEN rate_limit
    ELSE [rate_limit EXCEPT
            ![id] = [n |-> Incr(id),
                     exp |-> IF Incr(id) = 1
                             THEN IF expire_fails THEN None ELSE now + WindowTicks
                             ELSE rate_limit[id].exp]]

\* the calls of memory_store[identifier] less than window_seconds old
Pruned(id) ==
    LET Recent(call) == now - call < WindowTicks IN SelectSeq(memory_store[id], Recent)

\* _check_memory_rate_limit: "true" (limited) or "false", and the list it leaves
_check_memory_rate_limit(id) ==
    IF Len(Pruned(id)) >= checker.max_requests THEN "true" ELSE "false"

MemoryAfter(id) ==
    [memory_store EXCEPT
       ![id] = IF Len(Pruned(id)) >= checker.max_requests THEN Pruned(id)
               ELSE Append(Pruned(id), now)]

\* the fixed window a call falls in: the first call, and any call made window_seconds
\* or more after the first call of the window running, begins a window
WindowLapsed(id) == window[id].start = None \/ now >= window[id].start + WindowTicks
WindowAfter(id, faulted) ==
    [window EXCEPT
       ![id] = [start |-> IF WindowLapsed(id) THEN now ELSE window[id].start,
                calls |-> IF WindowLapsed(id) THEN 1 ELSE window[id].calls + 1,
                clean |-> window[id].clean /\ ~faulted,
                api |-> IF WindowLapsed(id) THEN 0 ELSE window[id].api]]

\* is_rate_limited, which takes the store or the memory as the service was built
IsRateLimited(id, expire_fails) ==
    /\ WindowLapsed(id) \/ window[id].calls < MaxCalls
    /\ expire_fails => (use_redis /\ store = "up" /\ Incr(id) = 1)
    /\ IF use_redis
       THEN /\ rate_limit' = RedisAfter(id, expire_fails)
            /\ store' = IF expire_fails THEN "down" ELSE store
            /\ window' = WindowAfter(id, RedisFault(id, expire_fails))
            /\ res' = [NoResult EXCEPT
                         !.op = "is_rate_limited",
                         !.kind = _check_redis_rate_limit(id, expire_fails),
                         !.input = IF RedisFault(id, expire_fails) THEN "fault" ELSE ""]
            /\ UNCHANGED memory_store
       ELSE /\ memory_store' = MemoryAfter(id)
            /\ window' = WindowAfter(id, FALSE)
            /\ res' = [NoResult EXCEPT !.op = "is_rate_limited",
                                       !.kind = _check_memory_rate_limit(id)]
            /\ UNCHANGED <<rate_limit, store>>
    /\ UNCHANGED <<now, cfgVars, tokVars, revoked_token, revokedOk, userVars, failed_auth,
                   streak, procVars, checker>>

\* the two limiters given the same call at the same time, the store reachable:
\* kind is what the store-backed limiter answers, alt what the memory one does
BothLimiters(id) ==
    /\ WindowLapsed(id) \/ window[id].calls < MaxCalls
    /\ store = "up"
    /\ rate_limit' = RedisAfter(id, FALSE)
    /\ memory_store' = MemoryAfter(id)
    /\ window' = WindowAfter(id, FALSE)
    /\ res' = [NoResult EXCEPT !.op = "both_limiters",
                               !.kind = _check_redis_rate_limit(id, FALSE),
                               !.alt = _check_memory_rate_limit(id)]
    /\ UNCHANGED <<now, cfgVars, store, tokVars, revoked_token, revokedOk, userVars,
                   failed_auth, streak, procVars, checker>>

\* two of the preconfigured RateLimitChecker instances, both keyed by the user and
\* with the same window, scaled down from 35 and 10 requests in 60 seconds
rate_limit_api == [max_requests |-> 2, window_seconds |-> 1]
rate_limit_heavy == [max_requests |-> 1, window_seconds |-> 1]

\* a request checked by rate_limit_api, over the store: its key is
\* rate_limit:{identifier}:{window_seconds}, the key rate_limit_heavy uses
RateLimitApi(id) ==
    /\ WindowLapsed(id) \/ window[id].calls < MaxCalls
    /\ use_redis /\ store = "up"
    /\ rate_limit_api.window_seconds = checker.window_seconds
    /\ rate_limit' = RedisAfter(id, FALSE)
    /\ window' = [WindowAfter(id, FALSE) EXCEPT
                    ![id].api = IF WindowLapsed(id) THEN 1 ELSE window[id].api + 1]
    /\ res' = [NoResult EXCEPT
                 !.op = "rate_limit_api",
                 !.kind = IF Incr(id) > rate_limit_api.max_requests THEN "true" ELSE "false"]
    /\ UNCHANGED <<now, cfgVars, store, tokVars, revoked_token, revokedOk, userVars,
                   failed_auth, streak, procVars, checker, memory_store>>

\* ---- role-based access control ----
\* UserRole.priority of the identity service, and of the relying service
priority(user_role) ==
    CASE user_role = "staff" -> 2
      [] user_role = "therapist" -> 2
      [] user_role = "cdc" -> 3
      [] user_role = "regional_manager" -> 4
      [] user_role = "admin" -> 5
      [] OTHER -> 0

org_priority(user_role) ==
    CASE user_role = "admin" -> 100
      [] user_role = "regional_manager" -> 50
      [] user_role = "cdc" -> 40
      [] user_role = "therapist" -> 30
      [] user_role = "staff" -> 20
      [] OTHER -> 0

\* the comparison made the wrong way round at equal priorities
RoleChecker_Strict(current_role, required_role) ==
    IF priority(current_role) <= priority(required_role) THEN "NotAuthorized" ELSE "ok"

\* RoleChecker.__call__ once get_current_user has returned the user
RoleChecker(current_role, required_role) ==
    IF priority(current_role) < priority(required_role) THEN "NotAuthorized" ELSE "ok"

OrgRoleChecker(current_role, required_role) ==
    IF org_priority(current_role) < org_priority(required_role) THEN "NotAuthorized" ELSE "ok"

\* a request to an endpoint of the identity service that requires a role: the
\* gateway, then RoleChecker; alt is what the relying service's RoleChecker
\* answers for the same two roles
RequireRole(tok, client_ip, required_role) ==
    /\ tok <= Len(tokens)
    /\ LET kind == authenticate(tok, client_ip) IN
       /\ failed_auth' =
             IF kind = "ok" THEN clear_failed_auth_attempts(client_ip)
             ELSE IF GatewayRecordsFailure(tok, client_ip)
                  THEN record_failed_auth_attempt(client_ip, AUTH_LOCKOUT_SECONDS)
                  ELSE failed_auth
       /\ res' = IF kind # "ok"
                 THEN Result("RoleChecker", tok, required_role, kind)
                 ELSE [Result("RoleChecker", tok, required_role,
                              RoleChecker(role[UserOf(tok)], required_role))
                         EXCEPT !.sub = UserOf(tok),
                                !.input = role[UserOf(tok)],
                                !.alt = OrgRoleChecker(role[UserOf(tok)], required_role)]
    /\ UNCHANGED <<now, cfgVars, store, tokVars, revoked_token, revokedOk, userVars, procVars,
                   streak, limVars>>

\* ---- the gateway of the relying service ----
\* the role the relying service reads from the claims: create_token_pair writes
\* none, and the gateway then takes STAFF
ClaimedRole(tok) == "staff"

\* _authenticate_user_from_token of src/org: "ok" or the error kind raised
org_authenticate(tok) == verify_token(tok, "access")

\* the relying service keeps its counter in the store it shares with the identity
\* service, and never reads it
OrgAuthenticate(tok, client_ip) ==
    /\ tok <= Len(tokens)
    /\ org_authenticate(tok) # "ok" => FailedCount(client_ip) < MaxFailures
    /\ LET kind == org_authenticate(tok) IN
       /\ failed_auth' =
             IF kind = "ok" THEN failed_auth
             ELSE record_failed_auth_attempt(client_ip, AUTH_LOCKOUT_SECONDS)
       /\ res' = [Result("org.authenticate", tok, "access", kind)
                    EXCEPT !.sub = IF kind = "ok" THEN UserOf(tok) ELSE "",
                           !.type = IF kind = "ok" THEN ClaimedRole(tok) ELSE "",
                           !.start = [NoStart EXCEPT
                                        !.limited = is_auth_rate_limited(client_ip, max_attempts),
                                        !.count = FailedCount(client_ip)]]
    /\ UNCHANGED <<now, cfgVars, store, tokVars, revoked_token, revokedOk, userVars, procVars,
                   streak, limVars>>

\* ---- the identity service ----
\* the default configuration, which src/auth/src/core/config.py cannot change
InitAuth ==
    /\ Init
    /\ ENABLE_TOKEN_BLACKLIST
    /\ REDIS_FAIL_SECURE
    /\ redis_client = "client"

\* the identity service with accounts active or not
InitLogin ==
    /\ \E st \in [Users -> {"active", "inactive"}] :
          InitFrom(st, [u \in Users |-> "admin"], [max_requests |-> 1, window_seconds |-> 1])
    /\ ENABLE_TOKEN_BLACKLIST
    /\ REDIS_FAIL_SECURE
    /\ redis_client = "client"

\* login alone
NextLogin ==
    \/ Tick
    \/ StoreFail
    \/ StoreRecover
    \/ \E e \in Emails, ok \in BOOLEAN, ip \in ClientIps : Login(e, ok, ip)

SpecLogin == InitLogin /\ [][NextLogin]_vars

\* concurrent login calls, the store reachable throughout
NextConcurrentLogin ==
    \/ Tick
    \/ \E p \in Procs, e \in Emails, ok \in BOOLEAN, ip \in ClientIps : LoginCheck(p, e, ok, ip)
    \/ \E p \in Procs : LoginVerify(p)

SpecConcurrentLogin == InitLogin /\ [][NextConcurrentLogin]_vars

\* a RateLimitChecker of any size, over the store or over the memory
InitLimiter ==
    /\ \E ch \in [max_requests : MaxRequestsChoices, window_seconds : WindowSecondsChoices] :
          InitFrom([u \in Users |-> "active"], [u \in Users |-> "admin"], ch)
    /\ ENABLE_TOKEN_BLACKLIST
    /\ REDIS_FAIL_SECURE

NextLimiter ==
    \/ Tick
    \/ StoreFail
    \/ StoreRecover
    \/ \E id \in ClientIps, ef \in BOOLEAN : IsRateLimited(id, ef)

SpecLimiter == InitLimiter /\ [][NextLimiter]_vars

\* the two counter families of the store: the request limiter and the
\* failed-authentication counter, each call open to a store fault part-way
NextCounters ==
    \/ Tick
    \/ StoreFail
    \/ StoreRecover
    \/ \E id \in ClientIps, ef \in BOOLEAN : IsRateLimited(id, ef)
    \/ \E ip \in ClientIps, ef \in BOOLEAN : RecordFailedAuthAttempt(ip, ef)

SpecCounters == InitAuth /\ [][NextCounters]_vars

\* the two limiters side by side, the store reachable throughout
NextBothLimiters ==
    \/ Tick
    \/ \E id \in ClientIps : BothLimiters(id)

InitBothLimiters == InitLimiter /\ redis_client = "client"

SpecBothLimiters == InitBothLimiters /\ [][NextBothLimiters]_vars

\* rate_limit_heavy and rate_limit_api checking requests of one user, over the
\* store, the store reachable throughout
InitPreconfigured ==
    /\ InitAuth
    /\ checker = rate_limit_heavy

NextPreconfigured ==
    \/ Tick
    \/ \E id \in ClientIps : IsRateLimited(id, FALSE)
    \/ \E id \in ClientIps : RateLimitApi(id)

SpecPreconfigured == InitPreconfigured /\ [][NextPreconfigured]_vars

\* login and the gateways of the two services
NextGateways ==
    \/ Tick
    \/ StoreFail
    \/ StoreRecover
    \/ \E e \in Emails, ok \in BOOLEAN, ip \in ClientIps : Login(e, ok, ip)
    \/ \E tok \in Presentable, ip \in ClientIps : Authenticate(tok, ip)
    \/ \E tok \in Presentable, ip \in ClientIps : OrgAuthenticate(tok, ip)

SpecGateways == InitAuth /\ [][NextGateways]_vars

\* users of every role; login, refresh_token and the gateway of the relying service
InitRelying ==
    /\ \E ro \in [Users -> UserRole] :
          InitFrom([u \in Users |-> "active"], ro, [max_requests |-> 1, window_seconds |-> 1])
    /\ ENABLE_TOKEN_BLACKLIST
    /\ REDIS_FAIL_SECURE
    /\ redis_client = "client"

NextRelying ==
    \/ Tick
    \/ \E e \in Users, ip \in ClientIps : Login(e, TRUE, ip)
    \/ \E tok \in Presentable : RefreshVerify(1, tok)
    \/ RefreshRevoke(1)
    \/ RefreshIssue(1)
    \/ \E tok \in Presentable, ip \in ClientIps : OrgAuthenticate(tok, ip)

SpecRelying == InitRelying /\ [][NextRelying]_vars

\* users of every role; login and the endpoints that require a role
NextRbac ==
    \/ Tick
    \/ \E e \in Users, ip \in ClientIps : Login(e, TRUE, ip)
    \/ \E tok \in Presentable, ip \in ClientIps, rr \in UserRole : RequireRole(tok, ip, rr)

SpecRbac == InitRelying /\ [][NextRbac]_vars

\* login with the right password, and concurrent refresh_token calls
NextRefresh ==
    \/ Tick
    \/ StoreFail
    \/ StoreRecover
    \/ \E e \in Users, ip \in ClientIps : Login(e, TRUE, ip)
    \/ \E p \in Procs, tok \in Presentable : RefreshVerify(p, tok)
    \/ \E p \in Procs : RefreshRevoke(p)
    \/ \E p \in Procs : RefreshIssue(p)

SpecRefresh == InitAuth /\ [][NextRefresh]_vars

\* login with the right password, change_password and the gateway
NextGateway ==
    \/ Tick
    \/ StoreFail
    \/ StoreRecover
    \/ \E e \in Users, ip \in ClientIps : Login(e, TRUE, ip)
    \/ \E u \in Users, ok \in BOOLEAN : ChangePassword(u, ok)
    \/ \E tok \in Presentable, ip \in ClientIps : Authenticate(tok, ip)

SpecGateway == InitAuth /\ [][NextGateway]_vars

\* login with the right password, change_password, the gateway, and one
\* refresh_token call at a time,
\* with the store reachable throughout
NextAuth ==
    \/ Tick
    \/ \E e \in Users, ip \in ClientIps : Login(e, TRUE, ip)
    \/ \E u \in Users, ok \in BOOLEAN : ChangePassword(u, ok)
    \/ \E tok \in Presentable, ip \in ClientIps : Authenticate(tok, ip)
    \/ \E tok \in Presentable : RefreshVerify(1, tok)
    \/ RefreshRevoke(1)
    \/ RefreshIssue(1)

SpecAuth == InitAuth /\ [][NextAuth]_vars

\* the access tokens issued so far
AccessTokens == {j \in 1 .. Len(tokens) : tokens[j].type = "access"}

\* a request to the gateway with one of the access tokens issued
AuthenticateAccess(client_ip) == \E tok \in AccessTokens : Authenticate(tok, client_ip)

\* login with the right password, deactivate_user, the gateway, and one
\* refresh_token call at a time, with the store reachable throughout
NextDeactivate ==
    \/ Tick
    \/ \E e \in Users, ip \in ClientIps : Login(e, TRUE, ip)
    \/ \E u \in Users : DeactivateUser(u)
    \/ \E ip \in ClientIps : AuthenticateAccess(ip)
    \/ \E tok \in 1 .. TokenSlots : RefreshVerify(1, tok)
    \/ RefreshRevoke(1)
    \/ RefreshIssue(1)

SpecDeactivate == InitAuth /\ [][NextDeactivate]_vars

\* login with the right password, logout, refresh_token, and verify_token to see
\* what became of the tokens
NextLogout ==
    \/ Tick
    \/ StoreFail
    \/ StoreRecover
    \/ \E e \in Users, ip \in ClientIps : Login(e, TRUE, ip)
    \/ \E a \in 1 .. TokenSlots, r \in 1 .. TokenSlots : LogoutAccess(a, r)
    \/ LogoutRefresh
    \/ \E tok \in 1 .. TokenSlots, ty \in TokenType : VerifyToken(tok, ty)

SpecLogout == InitAuth /\ [][NextLogout]_vars

\* ---- the claims about TokenManager, checked under Spec ----
StoreReachable == redis_client = "client" /\ store = "up"
StoreUnreachable == redis_client = "none" \/ store = "down"
Unexpired(tok) == _ts(now) <= tokens[tok].exp
VerifiedIssued == res.op = "verify_token" /\ Issued(res.tok)

\* C1: with the blacklist enabled and the store reachable, a token for which
\* revoke_token has returned True never verifies again, at any later time.
C1_RevokedIsTerminal ==
    (VerifiedIssued /\ res.tok \in revokedOk /\ ENABLE_TOKEN_BLACKLIST /\ StoreReachable)
        => res.kind # "ok"

\* C2: with the blacklist enabled and the store reachable, a token revoked and
\* then verified with its own type, in the second it was issued, fails with
\* TokenRevoked.
C2_RevokedVerifiesAsTokenRevoked ==
    (VerifiedIssued /\ res.tok \in revokedOk /\ res.expected = tokens[res.tok].type
       /\ _ts(now) = tokens[res.tok].iat /\ ENABLE_TOKEN_BLACKLIST /\ StoreReachable)
        => res.kind = "TokenRevoked"

\* C3: verifying a validly signed, unexpired token with the other type as the
\* expected type fails with TokenTypeInvalid.
C3_WrongTypeIsTokenTypeInvalid ==
    (VerifiedIssued /\ Unexpired(res.tok) /\ res.expected # tokens[res.tok].type)
        => res.kind = "TokenTypeInvalid"

\* C4: before its expiry and with the store reachable, verify_token of a token
\* that create_token(S, T) made and that has no revocation record, with T as the
\* expected type, returns claims with sub = str(S) and type = T.
C4_IssueVerifyRoundTrip ==
    (VerifiedIssued /\ res.expected = issuedFor[res.tok].token_type
       /\ Unexpired(res.tok) /\ StoreReachable /\ revoked_token[res.tok] = 0)
        => /\ res.kind = "ok"
           /\ res.sub = Str(issuedFor[res.tok].subject)
           /\ res.type = issuedFor[res.tok].token_type

C4_Witness ==
    /\ VerifiedIssued /\ res.kind = "ok" /\ res.sub = "7" /\ res.type = "refresh"
    /\ issuedFor[res.tok].subject.isInt
    /\ ENABLE_TOKEN_BLACKLIST /\ StoreReachable /\ now > 0

\* C9: is_token_revoked answers False when the blacklist is disabled; with the
\* blacklist enabled and the store unreachable it raises InternalServerError in
\* fail-secure mode and answers False in fail-open mode; and in fail-secure mode
\* with the blacklist enabled verify_token returns no claims while the store is
\* unreachable.
C9_RevocationCheckPolicy ==
    /\ res.op = "is_token_revoked" =>
          /\ ~ENABLE_TOKEN_BLACKLIST => res.kind = "false"
          /\ (ENABLE_TOKEN_BLACKLIST /\ StoreUnreachable /\ REDIS_FAIL_SECURE)
                => res.kind = "InternalServerError"
          /\ (ENABLE_TOKEN_BLACKLIST /\ StoreUnreachable /\ ~REDIS_FAIL_SECURE)
                => res.kind = "false"
    /\ (res.op = "verify_token" /\ ENABLE_TOKEN_BLACKLIST /\ REDIS_FAIL_SECURE
          /\ StoreUnreachable) => res.kind # "ok"

C9_Witness ==
    /\ VerifiedIssued /\ Unexpired(res.tok) /\ res.expected = tokens[res.tok].type
    /\ ENABLE_TOKEN_BLACKLIST /\ REDIS_FAIL_SECURE
    /\ redis_client = "client" /\ store = "down"
    /\ res.kind = "InvalidToken"

\* C10: with the blacklist enabled, fail-secure mode set and the store
\* unreachable, verify_token of an unexpired token of the expected type fails with
\* InternalServerError.
C10_StoreFaultIsInternalServerError ==
    (VerifiedIssued /\ Unexpired(res.tok) /\ res.expected = tokens[res.tok].type
       /\ ENABLE_TOKEN_BLACKLIST /\ REDIS_FAIL_SECURE /\ StoreUnreachable)
        => res.kind = "InternalServerError"

\* ---- the claims about refresh_token, checked under SpecRefresh ----
\* C5: for any one refresh token, at most one refresh_token call returns a new
\* pair, however the concurrent calls presenting it interleave.
C5_RefreshSingleUse == \A j \in 1 .. TokenSlots : refreshed[j] <= 1

\* C6: once a refresh_token call has returned a pair for a token, a call that
\* presents the same token later, before its expiry and with the store reachable,
\* fails with TokenRevoked.
C6_ReusedRefreshIsTokenRevoked ==
    (res.op = "refresh_token" /\ Issued(res.tok) /\ res.start.prior >= 1
       /\ Unexpired(res.tok) /\ store = "up")
        => res.kind = "TokenRevoked"

\* ---- the claims about the watermark, checked under SpecAuth and SpecGateway ----
\* the token's issuedAt is strictly earlier than its user's watermark
PrecedesWatermark(tok) ==
    /\ tokens_valid_from_utc[tokens[tok].sub] # None
    /\ tokens[tok].iat * TicksPerSecond < tokens_valid_from_utc[tokens[tok].sub]

\* C7: after change_password, a token of that user whose iat precedes the new
\* watermark is accepted neither by the gateway nor by refresh_token.
C7_PasswordChangeRevokesAll ==
    /\ (res.op = "authenticate" /\ Issued(res.tok) /\ PrecedesWatermark(res.tok))
          => res.kind # "ok"
    /\ (res.op = "refresh_token" /\ Issued(res.tok) /\ res.start.stale)
          => res.kind # "ok"

\* what C8 is about: the gateway was given an access token, unexpired, with no
\* revocation record in the reachable store, issued before its user's watermark
StaleAccessToken ==
    /\ res.op = "authenticate" /\ Issued(res.tok)
    /\ tokens[res.tok].type = "access" /\ Unexpired(res.tok)
    /\ store = "up" /\ revoked_token[res.tok] = 0
    /\ PrecedesWatermark(res.tok)

C13_LockoutAfterFailures ==
    res.op = "login" =>
        /\ res.start.struck => res.kind = "InvalidCredentials"
        /\ res.kind = "ok" => \A ip \in ClientIps : failed_auth[ip] = NoKey

\* C13, amended: with the store reachable at each of those failed logins, each of
\* them a wrong credential, and at the further attempt, the attempt is
\* rejected whatever the password, and the counter is left as it was; a successful
\* login made with the store reachable leaves no counter, so the client is not
\* limited.
C13_LockoutWhileStoreReachable ==
    res.op = "login" =>
        /\ (res.start.struck /\ res.start.clean /\ store = "up")
              => /\ res.kind = "InvalidCredentials"
                 /\ \A ip \in ClientIps : failed_auth[ip].n = max_attempts
        /\ (res.kind = "ok" /\ store = "up")
              => \A ip \in ClientIps :
                    failed_auth[ip] = NoKey /\ ~is_auth_rate_limited(ip, max_attempts)

C13_Witness ==
    /\ res.op = "login" /\ res.start.struck /\ res.start.clean /\ store = "up"
    /\ res.input = "password_ok" /\ res.kind = "InvalidCredentials"
    /\ \E u \in Users : status[u] = "active"
\* ---- the claims about the gateways, checked under SpecGateways ----
Gateways == {"authenticate", "org.authenticate"}
\* the client's failed-auth counter after the request
CounterNow == FailedCount(CHOOSE ip \in ClientIps : TRUE)

\* C14: in either gateway, a request from a client that is limited when it arrives
\* fails with RateLimitExceeded and leaves the failed-auth counter as it was.
C14_LimitedFailsFast ==
    (res.op \in Gateways /\ res.start.limited)
        => res.kind = "RateLimitExceeded" /\ CounterNow = res.start.count

\* C15: in either gateway, with the store reachable and the client not limited, a
\* request whose access token fails verification adds one to the failed-auth
\* counter and fails with the error kind verify_token raised.
C15_VerificationFailureIsCounted ==
    (res.op \in Gateways /\ ~res.start.limited /\ store = "up"
       /\ verify_token(res.tok, "access") # "ok")
        => /\ CounterNow = res.start.count + 1
           /\ res.kind = verify_token(res.tok, "access")

\* C16: in either gateway, with the store reachable, a request that authenticates
\* leaves no failed-auth counter for the client.
C16_SuccessClearsCounter ==
    (res.op \in Gateways /\ res.kind = "ok" /\ store = "up") => CounterNow = 0

\* ---- the claim about the claims of the token, checked under SpecRelying ----
\* C17: the relying service's gateway resolves an access token that login or
\* refresh_token issued to the id and the role of the user it was issued to.
C17_TokenCarriesRole ==
    (res.op = "org.authenticate" /\ res.kind = "ok")
        => res.sub = UserOf(res.tok) /\ res.type = role[UserOf(res.tok)]
\* ---- the claims about RoleChecker, checked under SpecRbac ----
\* the user passed the gateway, so RoleChecker compared the two roles
RolesCompared == res.op = "RoleChecker" /\ res.input \in UserRole

\* C18: RoleChecker passes exactly when the priority of the user's role is at
\* least that of the required role, and raises NotAuthorized otherwise; admin
\* passes every requirement, staff fails cdc, regional_manager passes cdc.
C18_RoleCheckerByPriority ==
    RolesCompared =>
        /\ res.kind \in {"ok", "NotAuthorized"}
        /\ res.kind = "ok" <=> priority(res.input) >= priority(res.expected)
        /\ res.input = "admin" => res.kind = "ok"
        /\ (res.input = "staff" /\ res.expected = "cdc") => res.kind = "NotAuthorized"
        /\ (res.input = "regional_manager" /\ res.expected = "cdc") => res.kind = "ok"
        /\ (res.input # res.expected /\ priority(res.input) = priority(res.expected))
              => res.kind = "ok"

C18_Witness ==
    /\ RolesCompared /\ res.input = "therapist" /\ res.expected = "staff" /\ res.kind = "ok"

\* C19: for every pair of roles the RoleChecker of the identity service and that
\* of the relying service decide alike.
C19_RoleCheckersAgree == RolesCompared => res.kind = res.alt
\* ---- the claims about the request limiter, checked under SpecLimiter ----
TheIdentifier == CHOOSE id \in ClientIps : TRUE

\* C11: starting from no counter and with no store fault met, the calls of a fixed
\* window up to the max_requests-th are not limited and the later ones are; a call
\* made window_seconds or more after the window's first call begins a new window.
C11_FixedWindow ==
    (res.op = "is_rate_limited" /\ window[TheIdentifier].clean)
        => res.kind = IF window[TheIdentifier].calls > checker.max_requests
                      THEN "true" ELSE "false"

\* C12: a call of is_rate_limited during which INCR or EXPIRE fails answers not
\* limited.
C12_LimiterFailsOpen ==
    (res.op = "is_rate_limited" /\ res.input = "fault") => res.kind = "false"

C12_Witness ==
    /\ res.op = "is_rate_limited" /\ res.input = "fault" /\ res.kind = "false"
    /\ store = "down" /\ window[TheIdentifier].calls > checker.max_requests
    /\ rate_limit[TheIdentifier].n >= checker.max_requests

\* C20, checked under SpecBothLimiters: given the same calls at the same times, the
\* memory limiter and the store-backed limiter answer alike at every call.
C20_LimitersAgree == res.op = "both_limiters" => res.kind = res.alt

\* ---- the claims about revocation records, checked under Spec ----
\* revoke_token has just been given an issued token whose expiry is not later
\* than the current time
RevokedWhenExpired ==
    res.op = "revoke_token" /\ Issued(res.tok) /\ tokens[res.tok].exp * TicksPerSecond <= now

\* C21, as stated: revoke_token of a token whose expiry is not later than the
\* current time returns True and writes nothing to the store, at the first call and
\* at every repetition.
C21_RevokeExpiredIsNoOp ==
    [][RevokedWhenExpired' => (res'.kind = "true" /\ revoked_token' = revoked_token)]_vars

\* C21, amended: such a call writes nothing to the store, at the first call and at
\* every repetition; it returns True when the blacklist is enabled and a store
\* client is configured, whether the store answers or not, and False otherwise.
C21_RevokeExpiredWritesNothing ==
    [][RevokedWhenExpired' =>
          /\ revoked_token' = revoked_token
          /\ res'.kind = IF ENABLE_TOKEN_BLACKLIST /\ redis_client = "client"
                         THEN "true" ELSE "false"]_vars

C21_Witness ==
    /\ RevokedWhenExpired /\ res.input = "repeat" /\ res.kind = "true"
    /\ tokens[res.tok].exp = _ts(now) /\ store = "down"

\* ---- the claims about the callers of revoke_token, checked under SpecLogout ----
\* a logout that returned normally had both of its revoke_token calls return True
LogoutSurfacesFailedRevocation ==
    (res.op = "logout" /\ res.kind = "ok") => (res.input = "true" /\ res.alt = "true")

\* a token given to a logout that returned normally never verifies again
LoggedOutIsRejected ==
    (VerifiedIssued /\ res.tok \in lout.out) => res.kind # "ok"

\* a refresh_token call that returned a pair had its revoke_token call return True
RefreshSurfacesFailedRevocation ==
    (res.op = "refresh_token" /\ res.kind = "ok") => res.tok \in revokedOk

\* C24: a caller whose revoke_token call returned False fails with an error: logout
\* returns normally only if both tokens are rejected by every later verify_token,
\* and refresh_token returns a pair only if the old refresh token was revoked.
C24_CallersSurfaceFailedRevocation ==
    /\ LogoutSurfacesFailedRevocation
    /\ LoggedOutIsRejected
    /\ RefreshSurfacesFailedRevocation

\* ---- the claim about the size of the blacklist, checked under SpecLogout ----
RevocationKeys == {j \in 1 .. TokenSlots : KeyPresent(j)}
\* the tick at which the token's expiresAt falls
ExpiresAt(tok) == tokens[tok].exp * TicksPerSecond

C23_CountersCarryTtl ==
    /\ \A id \in ClientIps : RateKeyPresent(id) => rate_limit[id].exp # None
    /\ \A ip \in ClientIps : FailedAuthPresent(ip) => failed_auth[ip].exp # None

\* ---- the claim about login, checked under SpecLogin ----
\* C25: login of an active user with the right password, from a client that is not
\* locked out, returns a pair made for that user whose access token has type
\* access and the user's id as subject; login of an inactive user fails with
\* InvalidCredentials whatever the password and makes no token.
C25_Login ==
    [][(res'.op = "login" /\ res'.sub \in Users) =>
          /\ (status[res'.sub] = "active" /\ res'.input = "password_ok"
                /\ \A ip \in ClientIps : ~is_auth_rate_limited(ip, max_attempts))
                => /\ res'.kind = "ok"
                   /\ res'.tok = Len(tokens) + 1
                   /\ Len(tokens') = Len(tokens) + 2
                   /\ tokens'[res'.tok].type = "access"
                   /\ tokens'[res'.tok].sub = res'.sub
                   /\ tokens'[res'.tok + 1].type = "refresh"
                   /\ tokens'[res'.tok + 1].sub = res'.sub
          /\ status[res'.sub] = "inactive"
                => res'.kind = "InvalidCredentials" /\ tokens' = tokens]_vars

C25_Witness ==
    /\ res.op = "login" /\ res.sub \in Users /\ status[res.sub] = "inactive"
    /\ res.input = "password_ok" /\ res.kind = "InvalidCredentials"
    /\ \A ip \in ClientIps : ~is_auth_rate_limited(ip, max_attempts)

\* ---- the claim about the precision of the watermark, checked under SpecGateway ----
\* C26: a token made at or after the instant held in its user's watermark passes
\* the watermark comparison of the gateway.  Every watermark holds an instant that
\* is not later than the current time, so the pair login has just returned was
\* made at or after it.
C26_FreshTokenPassesWatermark ==
    (res.op = "login" /\ res.kind = "ok")
        => ~IssuedBeforeWatermark(res.tok) /\ ~IssuedBeforeWatermark(res.tok + 1)

\* ---- the claim about concurrent logins, checked under SpecConcurrentLogin ----
\* C27: however concurrent login calls interleave, no more than max_attempts
\* passwords are verified for one client between the making of its failed-auth key
\* and the key's end.
C27_ThresholdUnderConcurrency ==
    \A ip \in ClientIps : lcall.verified[ip] <= max_attempts

\* ---- the claim about the preconfigured limiters, checked under SpecPreconfigured ----
\* C28: for one identifier, a request is limited by rate_limit_heavy only when the
\* requests that came through rate_limit_heavy in the window exceed its
\* max_requests, and by rate_limit_api only when those that came through
\* rate_limit_api exceed its own.
C28_OwnQuota ==
    /\ (res.op = "is_rate_limited" /\ res.kind = "true")
          => window[TheIdentifier].calls - window[TheIdentifier].api
                > rate_limit_heavy.max_requests
    /\ (res.op = "rate_limit_api" /\ res.kind = "true")
          => window[TheIdentifier].api > rate_limit_api.max_requests

\* ---- the claim about deactivation, checked under SpecDeactivate ----
\* C29: once a user is inactive, the gateway accepts no access token issued to
\* that user, and a refresh_token call begun with a refresh token issued to that
\* user returns no pair.
C29_DeactivationEndsSessions ==
    /\ (res.op = "authenticate" /\ Issued(res.tok)
          /\ status[tokens[res.tok].sub] = "inactive") => res.kind # "ok"
    /\ (res.op = "refresh_token" /\ res.start.inactive) => res.kind # "ok"

\* ---- the claim about the end of a lockout, checked under SpecGateways ----
\* C30: a request to login or to either gateway from a client that is locked out
\* when it arrives leaves the client's failed-auth key as it was, its count and
\* its time to live, so that the lockout ends when the key written by the failure
\* that reached the threshold runs out.
C30_LockedOutRequestsLeaveCounter ==
    [][(res'.op \in {"login", "authenticate", "org.authenticate"}
          /\ is_auth_rate_limited(TheIdentifier, max_attempts))
        => failed_auth' = failed_auth]_vars
====
